---------------------------- MODULE Spec2Model ----------------------------
(***************************************************************************)
(* A model of ghubscraper: the Django views of src/api/ghubscraper/views.py *)
(* (AddRepo, CrawlPages, Stats and clean_url), the item coercions of        *)
(* src/scraper/items.py and the spider callbacks of                          *)
(* src/scraper/spiders/__init__.py.                                          *)
(*                                                                           *)
(* Strings are sequences of one-character strings, so that str.replace,     *)
(* indexing and slicing are computed as Python computes them.               *)
(***************************************************************************)
EXTENDS Integers, Sequences, FiniteSets, Bags, TLC

VARIABLES
    \* ---- clean_url applied to an arbitrary string (SpecUrl)
    url,        \* the input string
    once,       \* clean_url(url)
    twice,      \* clean_url(clean_url(url))
    upc,        \* "start" | "once" | "twice"
    \* ---- numeric field coercion (SpecCoerce)
    raw,        \* the list of raw strings the selector matched
    field,      \* which item field is loaded
    coerced,    \* outcome of the field's input/output processor
    cpc,        \* "start" | "done"
    \* ---- the API (SpecApi, SpecCrawl)
    store,      \* the Repo table: a bag of rows
    resp,       \* the response of the last request handled
    job,        \* the start_urls list scrapyd accepted, or None
    submitted,  \* the start_urls of the crawl request, kept until the run starts
    \* ---- one run of the spider (SpecCrawl)
    started,    \* start_requests has run
    seen,       \* urls the scheduler's duplicate filter has recorded
    pending,    \* bag of requests waiting in the scheduler
    inflight,   \* bag of requests being downloaded
    content,    \* url -> the page a callback was handed
    errors,     \* urls whose callback raised
    fetches,    \* bag of urls downloaded
    filtered,   \* urls a request for which the duplicate filter dropped
    spawned     \* url -> how many requests its callback yielded

urlVars    == <<url, once, twice, upc>>
coerceVars == <<raw, field, coerced, cpc>>
apiVars    == <<store, resp, job, submitted>>
crawlVars  == <<started, seen, pending, inflight, content, errors, fetches,
                filtered, spawned>>
vars       == <<url, once, twice, upc, raw, field, coerced, cpc, store, resp, job,
                submitted,
                started, seen, pending, inflight, content, errors, fetches,
                filtered, spawned>>

None == <<"None">>              \* Python's None
IndexError == <<"IndexError">>  \* an uncaught IndexError
ValueError == <<"ValueError">>  \* an uncaught ValueError

-----------------------------------------------------------------------------
(* Bounds *)
MaxUrlLen == 6

-----------------------------------------------------------------------------
(* Strings *)

HasPrefix(s, p) == Len(s) >= Len(p) /\ SubSeq(s, 1, Len(p)) = p
After(s, p) == SubSeq(s, Len(p) + 1, Len(s))

\* str.replace(old, new): every non-overlapping occurrence, left to right
RECURSIVE Replace(_, _, _)
Replace(s, old, new) ==
    IF Len(s) < Len(old) THEN s
    ELSE IF HasPrefix(s, old) THEN new \o Replace(After(s, old), old, new)
    ELSE <<Head(s)>> \o Replace(Tail(s), old, new)

Http  == <<"h", "t", "t", "p", ":">>
Https == <<"h", "t", "t", "p", "s", ":">>

\* views.clean_url; url[-1] of the empty string raises IndexError
clean_url(u) ==
    LET r == Replace(u, Http, Https)
    IN  IF r = <<>> THEN IndexError
        ELSE IF r[Len(r)] = "/" THEN SubSeq(r, 1, Len(r) - 1)
        ELSE r

-----------------------------------------------------------------------------
(* SpecUrl: clean_url on every non-empty string over UrlChars *)

UrlChars == {"h", "t", "p", "s", ":", "/"}
UrlStrings == UNION {[1..n -> UrlChars] : n \in 1..MaxUrlLen}

IdleUrl == url = <<>> /\ once = None /\ twice = None /\ upc = "idle"
IdleCoerce == raw = <<>> /\ field = "none" /\ coerced = None /\ cpc = "idle"
IdleApi ==
    store = EmptyBag /\ resp = [view |-> "none"] /\ job = None /\ submitted = None
IdleCrawl ==
    /\ started = FALSE /\ seen = {} /\ pending = EmptyBag /\ inflight = EmptyBag
    /\ content = <<>> /\ errors = {} /\ fetches = EmptyBag /\ filtered = {}
    /\ spawned = <<>>

InitUrl ==
    /\ url \in UrlStrings
    /\ once = None /\ twice = None /\ upc = "start"
    /\ IdleCoerce /\ IdleApi /\ IdleCrawl

CleanOnce ==
    /\ upc = "start"
    /\ once' = clean_url(url)
    /\ upc' = "once"
    /\ UNCHANGED <<url, twice, coerceVars, apiVars, crawlVars>>

\* the second application propagates the exception of the first
CleanTwice ==
    /\ upc = "once"
    /\ twice' = IF once = IndexError THEN IndexError ELSE clean_url(once)
    /\ upc' = "twice"
    /\ UNCHANGED <<url, once, coerceVars, apiVars, crawlVars>>

NextUrl == CleanOnce \/ CleanTwice

SpecUrl == InitUrl /\ [][NextUrl]_vars

\* C1: URL normalization is idempotent: for every non-empty u,
\* clean_url(clean_url(u)) = clean_url(u).
C1_CleanUrlIdempotent == upc = "twice" => twice = once

-----------------------------------------------------------------------------
(* SpecCoerce: the numeric fields of items.py *)

MaxRawLen == 3

RawChars == {"0", "1", "2", ",", "k", " "}
RawStrings == UNION {[1..n -> RawChars] : n \in 0..MaxRawLen}
NumericFields == {"stars", "forks", "commit_count", "release_count"}

Digits == {"0", "1", "2", "3", "4", "5", "6", "7", "8", "9"}
DigitVal(c) ==
    CASE c = "0" -> 0 [] c = "1" -> 1 [] c = "2" -> 2 [] c = "3" -> 3
      [] c = "4" -> 4 [] c = "5" -> 5 [] c = "6" -> 6 [] c = "7" -> 7
      [] c = "8" -> 8 [] c = "9" -> 9

\* items.remove_thousand_separator: int_as_str.replace(",", "")
remove_thousand_separator(int_as_str) == Replace(int_as_str, <<",">>, <<>>)

\* str.lstrip / str.rstrip of whitespace, as int() does before parsing
RECURSIVE LStrip(_)
LStrip(s) == IF s # <<>> /\ Head(s) = " " THEN LStrip(Tail(s)) ELSE s
RECURSIVE RStrip(_)
RStrip(s) ==
    IF s # <<>> /\ s[Len(s)] = " " THEN RStrip(SubSeq(s, 1, Len(s) - 1)) ELSE s

RECURSIVE DecimalValue(_)
DecimalValue(s) ==
    IF s = <<>> THEN 0
    ELSE 10 * DecimalValue(SubSeq(s, 1, Len(s) - 1)) + DigitVal(s[Len(s)])

\* Python's int(str): surrounding whitespace is ignored, then decimal digits
\* are required; anything else raises ValueError
PyInt(s) ==
    LET t == RStrip(LStrip(s))
    IN  IF t # <<>> /\ \A i \in 1..Len(t) : t[i] \in Digits
        THEN [kind |-> "int", val |-> DecimalValue(t)]
        ELSE [kind |-> "raise", exc |-> "ValueError"]

Absent == [kind |-> "absent"]

\* lambda x: int(remove_thousand_separator(x[0]))      (stars, forks, commit_count)
IntProcessor(x) ==
    IF x = <<>> THEN [kind |-> "raise", exc |-> "IndexError"]
    ELSE PyInt(remove_thousand_separator(x[1]))

\* lambda x: int(remove_thousand_separator(x[0])) if x else []   (release_count)
ReleaseCountProcessor(x) ==
    IF x # <<>> THEN PyInt(remove_thousand_separator(x[1])) ELSE Absent

\* the field's input processor; TakeFirst then returns the one value it made
LoadNumericField(f, x) ==
    IF f = "release_count" THEN ReleaseCountProcessor(x) ELSE IntProcessor(x)

InitCoerce ==
    /\ raw \in {<<>>} \cup {<<s>> : s \in RawStrings}
    /\ field \in NumericFields
    /\ coerced = None /\ cpc = "start"
    /\ IdleUrl /\ IdleApi /\ IdleCrawl

Coerce ==
    /\ cpc = "start"
    /\ coerced' = LoadNumericField(field, raw)
    /\ cpc' = "done"
    /\ UNCHANGED <<raw, field, urlVars, apiVars, crawlVars>>

NextCoerce == Coerce

SpecCoerce == InitCoerce /\ [][NextCoerce]_vars

\* the raw string with separators removed is a decimal integer
IsNumeric(s) ==
    LET t == Replace(s, <<",">>, <<>>)
    IN  t # <<>> /\ \A i \in 1..Len(t) : t[i] \in Digits

\* C5: a raw string of digits and ',' coerces to the integer left after the
\* separators are removed; any other raw string leaves the field absent and
\* raises nothing.
C5_NumericCoercion ==
    (cpc = "done" /\ raw # <<>>) =>
        IF IsNumeric(raw[1])
        THEN coerced = [kind |-> "int",
                        val |-> DecimalValue(Replace(raw[1], <<",">>, <<>>))]
        ELSE coerced = Absent

-----------------------------------------------------------------------------
(* The API: views.py over the Repo table *)

MaxRecords == 2     \* rows the table may hold
MaxSeeds == 2       \* length of a submitted start_urls list

\* "//github.com/" is one element: no string searched for lies inside it
Host == <<"//github.com/">>
UrlA1  == Http \o Host \o <<"a">>           \* http://github.com/a
UrlA2  == Https \o Host \o <<"a", "/">>     \* https://github.com/a/
UrlB   == Https \o Host \o <<"b">>          \* https://github.com/b
BadUrl == Host \o <<"a">>                   \* //github.com/a (no scheme)
GoodUrls == {UrlA1, UrlA2, UrlB}
RepoNames == {"r1", "r2"}

\* a nullable integer column: Null or Some(n)
Null == <<>>
Some(n) == <<n>>
\* the (main_branch_commit_count, stars) pairs a request may carry
Payloads == {<<Null, Null>>, <<Some(0), Some(4)>>, <<Some(2), Some(1)>>}

\* the format the serializers accept, as the 400 message states it:
\* http(s)://github.com/<account>(/)
IsValidUrl(u) ==
    \E sch \in {Http \o Host, Https \o Host} :
        /\ HasPrefix(u, sch)
        /\ LET rest == After(u, sch)
               name == IF rest # <<>> /\ rest[Len(rest)] = "/"
                       THEN SubSeq(rest, 1, Len(rest) - 1) ELSE rest
           IN  name # <<>> /\ \A i \in 1..Len(name) : name[i] # "/"

\* Repo.objects.filter(account=account, repo=repo)
FilterAccountRepo(st, account, repo) ==
    LET keep == {e \in DOMAIN st : e.account = account /\ e.repo = repo}
    IN  [e \in keep |-> st[e]]

\* Repo.objects.filter(account=account)
FilterAccount(st, account) ==
    LET keep == {e \in DOMAIN st : e.account = account}
    IN  [e \in keep |-> st[e]]

\* "drop existing items" of AddRepo.post: the rows it deletes
AddRepo_NoDrop(st, account, repo) == EmptyBag
AddRepoDropped(st, account, repo) == FilterAccountRepo(st, account, repo)

\* AddRepo.post
AddRepoPost(account, repo, commits, stars, valid) ==
    /\ BagCardinality(store) < MaxRecords
    /\ LET cleaned == clean_url(account)
       IN  IF cleaned = IndexError
           THEN /\ resp' = [view |-> "add", status |-> 500]
                /\ UNCHANGED store
           ELSE IF valid
           THEN LET dropped == AddRepoDropped(store, cleaned, repo)
                    row == [account |-> cleaned, repo |-> repo,
                            main_branch_commit_count |-> commits,
                            stars |-> stars]
                IN  /\ store' = (store (-) dropped) (+) SetToBag({row})
                    /\ resp' = [view |-> "add", status |-> 201,
                                account |-> cleaned, repo |-> repo,
                                deleted |-> BagCardinality(dropped)]
           ELSE /\ resp' = [view |-> "add", status |-> 400]
                /\ UNCHANGED store
    /\ UNCHANGED <<job, submitted, urlVars, coerceVars, crawlVars>>

\* validated_urls of CrawlPages.post
ValidatedUrls(urls) == [i \in 1..Len(urls) |-> clean_url(urls[i])]

\* "drop existing items" in the loop of CrawlPages.post: the rows of every
\* cleaned url are deleted in turn
CrawlDrop_AfterLoop(st, validated) ==
    st (-) FilterAccount(st, validated[Len(validated)])
RECURSIVE CrawlDropLoop(_, _)
CrawlDropLoop(st, validated) ==
    IF validated = <<>> THEN st
    ELSE CrawlDropLoop(st (-) FilterAccount(st, Head(validated)),
                       Tail(validated))

Range(f) == {f[i] : i \in DOMAIN f}

\* list(set(validated_urls)): the elements once each, in an order Python
\* does not fix
CrawlDedup_Keep(validated) == {validated}
CrawlDedup(validated) ==
    LET S == Range(validated)
    IN  {f \in [1..Cardinality(S) -> S] : Range(f) = S}

\* CrawlPages.post; code is the status scrapyd answers with.  The message
\* scrapyd gets is kept in the response record: the joined start_urls and, for
\* the accounts submitted, the rows the table held when requests.post was made
CrawlPagesPost(start_urls, code) ==
    /\ IF start_urls = <<>>
       THEN /\ resp' = [view |-> "crawl", status |-> 400, error |-> "no urls"]
            /\ UNCHANGED <<store, job>>
       ELSE IF \A i \in 1..Len(start_urls) : IsValidUrl(start_urls[i])
       THEN LET validated == ValidatedUrls(start_urls)
                atPost == CrawlDropLoop(store, validated)
            IN  \E deduped \in CrawlDedup(validated) :
                  /\ store' = atPost
                  /\ job' = IF code = 200 THEN deduped ELSE job
                  /\ resp' = [view |-> "crawl",
                              status |-> IF code = 200 THEN 200 ELSE 400,
                              start_urls |-> deduped,
                              dropped |-> BagCardinality(store)
                                            - BagCardinality(atPost),
                              held |-> {e \in DOMAIN atPost :
                                          e.account \in Range(deduped)}]
       ELSE /\ resp' = [view |-> "crawl", status |-> 400, error |-> "format"]
            /\ UNCHANGED <<store, job>>
    /\ UNCHANGED <<urlVars, coerceVars, crawlVars>>

\* max(c if c is not None else 0 for c in ...) over a non-empty queryset
MaxCommitCount(qs) ==
    LET vals == {IF e.main_branch_commit_count = Null THEN 0
                 ELSE e.main_branch_commit_count[1] : e \in DOMAIN qs}
    IN  CHOOSE m \in vals : \A v \in vals : v <= m

\* queryset.filter(main_branch_commit_count=max).values("repo"): NULL matches
\* no value
TopRepos(qs, m) ==
    {e.repo : e \in {x \in DOMAIN qs : x.main_branch_commit_count = Some(m)}}

RECURSIVE SumStars(_, _)
SumStars(qs, rows) ==
    IF rows = {} THEN 0
    ELSE LET e == CHOOSE x \in rows : TRUE
         IN  qs[e] * e.stars[1] + SumStars(qs, rows \ {e})

\* Avg("stars"): NULLs are left out; None when no row has a value
AvgStars(qs) ==
    LET rows == {e \in DOMAIN qs : e.stars # Null}
        n == BagCardinality([e \in rows |-> qs[e]])
    IN  IF n = 0 THEN None ELSE [sum |-> SumStars(qs, rows), n |-> n]

\* Stats.post
StatsPost(account) ==
    /\ IF account = <<>>
       THEN resp' = [view |-> "stats", status |-> 400, error |-> "no account"]
       ELSE IF IsValidUrl(account)
       THEN LET qs == FilterAccount(store, clean_url(account))
            IN  IF qs # EmptyBag
                THEN LET m == MaxCommitCount(qs)
                     IN  resp' = [view |-> "stats", status |-> 200,
                                  account |-> clean_url(account),
                                  top_repos_by_commit_count |-> TopRepos(qs, m),
                                  commit_count |-> m,
                                  avg_stars_count |-> AvgStars(qs)]
                ELSE resp' = [view |-> "stats", status |-> 200,
                              error |-> "not crawled"]
       ELSE resp' = [view |-> "stats", status |-> 400, error |-> "format"]
    /\ UNCHANGED <<store, job, submitted, urlVars, coerceVars, crawlVars>>

\* the start_urls a crawl request may carry: up to MaxSeeds well-formed urls,
\* repeated or not, or one malformed url.  They are listed in one order only:
\* the handler deletes for every url and sends the urls as a set
UrlRank(u) == CASE u = UrlA1 -> 1 [] u = UrlA2 -> 2 [] OTHER -> 3
SeedLists ==
    {l \in UNION {[1..n -> GoodUrls] : n \in 0..MaxSeeds} :
        \A i \in 1..(Len(l) - 1) : UrlRank(l[i]) <= UrlRank(l[i + 1])}
      \cup {<<BadUrl>>}

InitApi == IdleUrl /\ IdleCoerce /\ IdleApi /\ IdleCrawl

\* a request the serializer rejects is drawn once: its fields decide nothing
AddRepoStep ==
    \/ \E account \in {UrlA1, UrlB}, repo \in RepoNames, p \in Payloads :
           AddRepoPost(account, repo, p[1], p[2], TRUE)
    \/ AddRepoPost(UrlB, "r1", Null, Null, FALSE)
    \/ AddRepoPost(<<>>, "r1", Null, Null, TRUE)

CrawlStep ==
    \E start_urls \in SeedLists, code \in {200, 500} :
        CrawlPagesPost(start_urls, code) /\ UNCHANGED submitted

StatsStep == \E account \in {UrlA2, UrlB, BadUrl, <<>>} : StatsPost(account)

NextApi == AddRepoStep \/ CrawlStep \/ StatsStep

SpecApi == InitApi /\ [][NextApi]_vars

RowsOf(st, account, repo) == BagCardinality(FilterAccountRepo(st, account, repo))

\* C3: the table never holds two rows for one (account, repo) pair, and right
\* after a successful add it holds exactly one row for the pair just added.
C3_OneRecordPerPair ==
    /\ \A e \in DOMAIN store : RowsOf(store, e.account, e.repo) = 1
    /\ (resp.view = "add" /\ resp.status = 201) =>
           RowsOf(store, resp.account, resp.repo) = 1

\* a pair was submitted again: the add dropped the row stored for it
C3_Witness ==
    /\ resp.view = "add" /\ resp.status = 201
    /\ resp.deleted = 1
    /\ RowsOf(store, resp.account, resp.repo) = 1

MaxOf(S) == CHOOSE m \in S : \A v \in S : v <= m

\* C8: the stats of an account report the maximum commit count over the rows
\* that have one and every repo with that count; rows without a commit count
\* do not take part, so an account with none does not report a maximum of 0.
C8_StatsMaxExcludesAbsent ==
    (resp.view = "stats" /\ resp.status = 200 /\ "commit_count" \in DOMAIN resp) =>
        LET qs == FilterAccount(store, resp.account)
            present == {e \in DOMAIN qs : e.main_branch_commit_count # Null}
            counts == {e.main_branch_commit_count[1] : e \in present}
        IN  IF present = {} THEN resp.commit_count # 0
            ELSE /\ resp.commit_count = MaxOf(counts)
                 /\ resp.top_repos_by_commit_count =
                        {e.repo : e \in {x \in present :
                            x.main_branch_commit_count[1] = MaxOf(counts)}}

\* C10: a crawl request that passes validation removes exactly the rows whose
\* account is one of the cleaned urls, has removed them when scrapyd is
\* contacted, and leaves them removed whatever scrapyd answers; every other
\* row is kept.
C10_CrawlDropsAccounts ==
    [][(resp'.view = "crawl" /\ "start_urls" \in DOMAIN resp') =>
          LET accounts == Range(resp'.start_urls)
              kept == {e \in DOMAIN store : e.account \notin accounts}
          IN  /\ store' = [e \in kept |-> store[e]]
              /\ resp'.held = {}]_vars

\* scrapyd refused a crawl that had dropped rows, and other rows remain
C10_Witness ==
    /\ resp.view = "crawl" /\ "start_urls" \in DOMAIN resp
    /\ resp.status = 400
    /\ resp.dropped > 0
    /\ store # EmptyBag

-----------------------------------------------------------------------------
(* The spider: one run of ScraperSpider under Scrapy's engine *)

NumLists == 1       \* repository-list pages on the site
NumRepos == 1       \* repositories on the site
MaxLinks == 2       \* repository links on one list page

\* the pages of the site besides the account pages
ListUrl(i) == <<"list", i>>
RepoUrl(i) == <<"repo", i>>
ReleasesUrl(i) == <<"releases", i>>
TagUrl(i) == <<"tag", i>>
ListUrls == {ListUrl(i) : i \in 1..NumLists}
RepoUrls == {RepoUrl(i) : i \in 1..NumRepos}

Kind(u) == IF Len(u) = 2 THEN u[1] ELSE "account"

\* what the selectors of the callbacks find on a page
Page(nav, repo_urls, next_page, releases, tags) ==
    [nav |-> nav, repo_urls |-> repo_urls, next_page |-> next_page,
     releases |-> releases, tags |-> tags]

\* the link lists of a list page, in the order of the repositories (the order
\* of the links on a page decides nothing: the scheduler's queue is a bag)
LinkLists ==
    {links \in UNION {[1..n -> RepoUrls] : n \in 0..MaxLinks} :
        \A i \in 1..(Len(links) - 1) : links[i][2] <= links[i + 1][2]}

\* the pages a url may serve: an account page links to a list page or to
\* none, a list page to repositories (twice to the same one, too) and to a
\* next page, a repository to its releases page or to none, a releases page
\* to its latest tag or to none
PageChoices(u) ==
    CASE Kind(u) = "account" ->
           {Page(nav, <<>>, None, <<>>, <<>>) :
              nav \in {<<>>} \cup {<<l>> : l \in ListUrls}}
      [] Kind(u) = "list" ->
           {Page(<<>>, links, next, <<>>, <<>>) :
              links \in LinkLists,
              next \in {None} \cup ListUrls}
      [] Kind(u) = "repo" ->
           {Page(<<>>, <<>>, None, rel, <<>>) :
              rel \in {<<>>, <<ReleasesUrl(u[2])>>}}
      [] Kind(u) = "releases" ->
           {Page(<<>>, <<>>, None, <<>>, tags) :
              tags \in {<<>>, <<TagUrl(u[2])>>}}
      [] OTHER -> {Page(<<>>, <<>>, None, <<>>, <<>>)}

\* downloads one run may make: one more than the site has pages
MaxFetches == 2 + NumLists + 3 * NumRepos + 1

\* scrapy.Request(url, callback=...): dont_filter keeps its default
Request(u, callback) ==
    [url |-> u, callback |-> callback, dont_filter |-> FALSE]

\* response.follow(url, callback=...): a request for the link of the page at
\* base, again with the default dont_filter
follow_NoFilter(base, href, callback) ==
    [url |-> href, callback |-> callback, dont_filter |-> TRUE]
follow(base, href, callback) ==
    [url |-> href, callback |-> callback, dont_filter |-> FALSE]

\* the start_urls the scheduled job hands to the spider
SpiderStartUrls == job

\* ScraperSpider.start_requests
start_requests ==
    [i \in 1..Len(SpiderStartUrls) |->
        Request(SpiderStartUrls[i], "parse_account_page")]

\* the outcome of a callback: whether it raised, and the requests it yielded
Outcome(error, out) == [error |-> error, out |-> out]

\* ScraperSpider.parse_account_page: [0] of no match raises IndexError
parse_account_page_Silent(u, page) ==
    IF page.nav = <<>> THEN Outcome(FALSE, <<>>)
    ELSE Outcome(FALSE, <<follow(u, page.nav[1], "parse_repos_page")>>)
parse_account_page(u, page) ==
    IF page.nav = <<>> THEN Outcome(TRUE, <<>>)
    ELSE Outcome(FALSE, <<follow(u, page.nav[1], "parse_repos_page")>>)

\* ScraperSpider.parse_repos_page
parse_repos_page(u, page) ==
    Outcome(FALSE,
        [i \in 1..Len(page.repo_urls) |->
            follow(u, page.repo_urls[i], "parse_repo_info")]
        \o (IF page.next_page # None
            THEN <<follow(u, page.next_page, "parse_repos_page")>>
            ELSE <<>>))

\* ScraperSpider.parse_repo_info: [0] of no match raises IndexError
parse_repo_info(u, page) ==
    IF page.releases = <<>> THEN Outcome(TRUE, <<>>)
    ELSE Outcome(FALSE, <<follow(u, page.releases[1], "parse_releases_page")>>)

\* ScraperSpider.parse_releases_page
parse_releases_page_NoFollow(u, page) == Outcome(FALSE, <<>>)
parse_releases_page(u, page) ==
    IF page.tags # <<>>
    THEN Outcome(FALSE, <<follow(u, page.tags[1], "parse_latest_release_info")>>)
    ELSE Outcome(FALSE, <<>>)

\* ScraperSpider.parse_latest_release_info
parse_latest_release_info(u, page) == Outcome(FALSE, <<>>)

\* the scheduler: a request is dropped when it may be filtered and its url
\* was seen, and is queued otherwise
enqueue_request(sch, r) ==
    IF ~r.dont_filter /\ r.url \in sch.seen
    THEN [sch EXCEPT !.filtered = @ \cup {r.url}]
    ELSE [sch EXCEPT !.seen = IF r.dont_filter THEN @ ELSE @ \cup {r.url},
                     !.pending = @ (+) SetToBag({r})]

RECURSIVE EnqueueAll(_, _)
EnqueueAll(sch, reqs) ==
    IF reqs = <<>> THEN sch
    ELSE EnqueueAll(enqueue_request(sch, Head(reqs)), Tail(reqs))

Scheduler(p) ==
    [seen |-> seen, pending |-> p, filtered |-> filtered]

SetScheduler(sch) ==
    /\ seen' = sch.seen
    /\ pending' = sch.pending
    /\ filtered' = sch.filtered

\* the engine opens the spider and schedules its start requests
SpiderOpen ==
    /\ job # None /\ ~started
    /\ started' = TRUE
    /\ SetScheduler(EnqueueAll(Scheduler(pending), start_requests))
    /\ submitted' = None
    /\ UNCHANGED <<inflight, content, errors, fetches, spawned,
                   urlVars, coerceVars, store, resp, job>>

\* the engine takes a request from the scheduler and downloads it
Download ==
    \E req \in BagToSet(pending) :
        /\ BagCardinality(fetches) < MaxFetches
        /\ pending' = pending (-) SetToBag({req})
        /\ inflight' = inflight (+) SetToBag({req})
        /\ fetches' = fetches (+) SetToBag({req.url})
        /\ UNCHANGED <<started, seen, content, errors, filtered, spawned,
                       urlVars, coerceVars, apiVars>>

\* the response of req arrives and its callback runs on it
Respond(req, page, outcome) ==
    /\ inflight' = inflight (-) SetToBag({req})
    /\ content' = (req.url :> page) @@ content
    /\ errors' = IF outcome.error THEN errors \cup {req.url} ELSE errors
    /\ spawned' = (req.url :> Len(outcome.out)) @@ spawned
    /\ SetScheduler(EnqueueAll(Scheduler(pending), outcome.out))
    /\ UNCHANGED <<started, fetches, urlVars, coerceVars, apiVars>>

Arrived(callback) == {req \in BagToSet(inflight) : req.callback = callback}

ParseAccountPage ==
    \E req \in Arrived("parse_account_page") :
      \E page \in PageChoices(req.url) :
        Respond(req, page, parse_account_page(req.url, page))

ParseReposPage ==
    \E req \in Arrived("parse_repos_page") :
      \E page \in PageChoices(req.url) :
        Respond(req, page, parse_repos_page(req.url, page))

ParseRepoInfo ==
    \E req \in Arrived("parse_repo_info") :
      \E page \in PageChoices(req.url) :
        Respond(req, page, parse_repo_info(req.url, page))

ParseReleasesPage ==
    \E req \in Arrived("parse_releases_page") :
      \E page \in PageChoices(req.url) :
        Respond(req, page, parse_releases_page(req.url, page))

ParseLatestReleaseInfo ==
    \E req \in Arrived("parse_latest_release_info") :
      \E page \in PageChoices(req.url) :
        Respond(req, page, parse_latest_release_info(req.url, page))

\* one crawl request starts the one run
SubmitCrawl ==
    /\ job = None
    /\ \E start_urls \in SeedLists, code \in {200, 500} :
          CrawlPagesPost(start_urls, code) /\ submitted' = start_urls

EngineStep ==
    \/ SpiderOpen
    \/ Download
    \/ ParseAccountPage
    \/ ParseReposPage
    \/ ParseRepoInfo
    \/ ParseReleasesPage
    \/ ParseLatestReleaseInfo

NextCrawl == SubmitCrawl \/ EngineStep

InitCrawl == IdleUrl /\ IdleCoerce /\ IdleApi /\ IdleCrawl

SpecCrawl == InitCrawl /\ [][NextCrawl]_vars

\* the engine keeps working while it has something to do
FairSpecCrawl == SpecCrawl /\ WF_vars(EngineStep)

\* the run is over: nothing is queued and nothing is being downloaded
Done == started /\ pending = EmptyBag /\ inflight = EmptyBag

-----------------------------------------------------------------------------
(* Properties of the run *)

\* the links of the chain account -> list (-> next list) -> repository ->
\* releases -> latest tag that the page fetched at u carries
ChainLinks(u) ==
    LET page == content[u]
    IN  CASE Kind(u) = "account" ->
               IF page.nav # <<>> THEN {page.nav[1]} ELSE {}
          [] Kind(u) = "list" ->
               Range(page.repo_urls)
                 \cup (IF page.next_page # None THEN {page.next_page} ELSE {})
          [] Kind(u) = "repo" ->
               IF page.releases # <<>> THEN {page.releases[1]} ELSE {}
          [] Kind(u) = "releases" ->
               IF page.tags # <<>> THEN {page.tags[1]} ELSE {}
          [] OTHER -> {}

\* every link of every parsed page has been fetched and parsed
ChainClosed == \A p \in DOMAIN content : ChainLinks(p) \subseteq DOMAIN content

\* C2: in one run no url is downloaded twice, whatever links lead to it.
C2_FetchedAtMostOnce == \A u \in DOMAIN fetches : fetches[u] <= 1

\* a finished run in which a list page linked twice to one repository and its
\* next-page link led to a list page already requested; both were fetched once
C2_Witness ==
    /\ Done
    /\ \E l \in DOMAIN content :
         LET page == content[l]
         IN  /\ Kind(l) = "list"
             /\ Len(page.repo_urls) = 2
             /\ page.repo_urls[1] = page.repo_urls[2]
             /\ page.repo_urls[1] \in filtered
             /\ fetches[page.repo_urls[1]] = 1
             /\ page.next_page \in filtered
             /\ fetches[page.next_page] = 1

\* C4: a repository page without a releases link is parsed without an error
\* and no releases page is requested for it.
C4_NoReleasesNoError ==
    \A u \in DOMAIN content :
        (Kind(u) = "repo" /\ content[u].releases = <<>>) =>
            (u \notin errors /\ ReleasesUrl(u[2]) \notin seen)

NoDuplicates(list) ==
    \A i, j \in 1..Len(list) : list[i] = list[j] => i = j

\* requests for the account page u that are queued, in flight or answered
AccountRequests(u) ==
    LET r == Request(u, "parse_account_page")
    IN  CopiesIn(r, pending) + CopiesIn(r, inflight)
          + (IF u \in DOMAIN content THEN 1 ELSE 0)

SiteSize == 2 + NumLists + 3 * NumRepos

\* falls with every step of the engine
Variant ==
    3 * (SiteSize - Cardinality(seen)) + 2 * BagCardinality(pending)
      + BagCardinality(inflight)

\* C9: a run terminates with nothing queued or in flight: the engine is never
\* stuck before that, and each of its steps lowers a variant that is never
\* negative.  When the run is over every url of the chain from the submitted
\* accounts has been fetched, and no page is requested before a page linking
\* to it has been parsed.
C9_Safety ==
    /\ Variant >= 0
    /\ (started /\ ~Done) => ENABLED EngineStep
    /\ \A u \in seen :
         Kind(u) # "account" => \E p \in DOMAIN content : u \in ChainLinks(p)
    /\ Done => (Range(job) \subseteq DOMAIN content /\ ChainClosed)

C9_Terminates == started ~> Done

=============================================================================
